---- MODULE Spec2Model ----
(***************************************************************************)
(* Model of the steganography engine (src/src/core/stegano_engine.py) and  *)
(* of the crypto transform it calls (src/src/core/crypto_manager.py).      *)
(*                                                                         *)
(* Bytes are integers 0..255, byte strings and pixel arrays are sequences. *)
(* A pixel array is kept flattened (row-major, channel-interleaved), with  *)
(* its shape beside it.  Python exceptions are tagged results: every       *)
(* operator that can raise returns a record whose exc field is "none" or   *)
(* the exception's kind.                                                   *)
(*                                                                         *)
(* The engine calls four library primitives: zlib, SHA-256, AES-GCM with   *)
(* PBKDF2, and numpy's seeded permutation.  They are modelled by small     *)
(* stand-ins that keep what the engine relies on: the zlib container       *)
(* (header check, deflate block type, Adler-32 trailer, trailing bytes     *)
(* ignored), a 16-byte content digest, an authenticated cipher laid out    *)
(* as nonce || tag || ciphertext, and a permutation that is a function of  *)
(* the seed and the length only.                                           *)
(***************************************************************************)
EXTENDS Integers, Sequences, FiniteSets, TLC

VARIABLES
    img,      \* the carrier pixel array img_array, flattened
    shape,    \* its shape <<height, width, channels>>
    pc,       \* "idle" | "embedded" | "embed_failed" | "extracted"
    req,      \* arguments of the last embed call
    draw,     \* what the last embed drew from the clock and the random source
    stego,    \* the array the last embed returned (<<>> when it raised)
    exc,      \* exception of the last call ("none" when it returned)
    visited,  \* sample indices (0-based) the last embed wrote, in order
    meta,     \* metadata the last embed returned
    prev,     \* the embed run before the last one (req, draw, stego, visited)
    flip,     \* bit offset of the embedded stream flipped after embed, or -1
    out,      \* result of the last extract or unpack call: [data, info]
    fields,   \* header field values handed to the packing code
    raw,      \* a byte string: the packed header, or the bytes handed to unpack
    parsed,   \* header field values read back from raw
    input,    \* arguments of a call to the crypto manager or to a validator
    result    \* what that call returned

vars == <<img, shape, pc, req, draw, stego, exc, visited, meta, prev, flip, out,
          fields, raw, parsed, input, result>>

----------------------------------------------------------------------------
(* Bounds of the model *)

SmallRows == 4
MaxSide == 6
MaxBitsTried == 8
MidRows == 8
LargeRows == 24
Cols == 10

----------------------------------------------------------------------------
(* Program constants *)

HeaderLen == 43
MinHeaderLen == 32
MarkerLen == 16
Channels == 3
NonceLen == 12
TagLen == 16
KeyLen == 32
ChecksumLen == 16
ReserveBits == 256

MAGIC == <<83, 84, 69, 71, 65, 78, 79, 48, 49>>

END_MARKER == <<1, 1, 1, 1, 1, 1, 1, 1, 1, 1, 1, 1, 1, 1, 1, 0>>

SALT == <<115, 116, 101, 103, 97, 110, 111, 103, 117, 97, 114, 100,
          95, 115, 97, 108, 116, 95, 50, 48, 50, 52>>

----------------------------------------------------------------------------
(* Generic helpers *)

Min2(a, b) == IF a <= b THEN a ELSE b

MinOf(S) == CHOOSE x \in S : \A y \in S : x <= y

\* the sequence s with every element computed
SeqOf(s) == s \o <<>>

\* Python slice s[lo:hi] on a sequence, 0-based, clamped to the length
Slice(s, lo, hi) ==
    LET h == Min2(hi, Len(s))
    IN  IF lo >= h THEN <<>> ELSE SubSeq(s, lo + 1, h)

\* sum of f(i) for i in lo..hi, reduced modulo m at every step
RECURSIVE SumMod(_, _, _, _)
SumMod(f, lo, hi, m) ==
    IF lo > hi THEN 0
    ELSE IF lo = hi THEN f[lo] % m
    ELSE LET mid == (lo + hi) \div 2
         IN  (SumMod(f, lo, mid, m) + SumMod(f, mid + 1, hi, m)) % m

\* bit j (0 = most significant) of an 8-bit value: format(byte, '08b')[j]
ByteBit(byte, j) == (byte \div (2 ^ (7 - j))) % 2

\* bitwise and / or on 8-bit values
BitAnd8(a, b) ==
    LET t == [j \in 0..7 |-> ((a \div 2 ^ j) % 2) * ((b \div 2 ^ j) % 2) * 2 ^ j]
    IN  t[0] + t[1] + t[2] + t[3] + t[4] + t[5] + t[6] + t[7]

BitOr8(a, b) ==
    LET t == [j \in 0..7 |->
                 (IF ((a \div 2 ^ j) % 2) + ((b \div 2 ^ j) % 2) > 0 THEN 1 ELSE 0)
                 * 2 ^ j]
    IN  t[0] + t[1] + t[2] + t[3] + t[4] + t[5] + t[6] + t[7]

\* struct.pack('>B' / '>I' / '>Q', v): big-endian, width bytes.  Values are
\* below 2^31 in the model, so the bytes above the low four are zero.
PackBE(v, width) ==
    [k \in 1..width |-> IF width - k >= 4 THEN 0
                        ELSE (v \div (256 ^ (width - k))) % 256]

\* struct.unpack('>B' / '>I' / '>Q', s)[0]: big-endian value of the bytes s
RECURSIVE UnpackBE(_)
UnpackBE(s) ==
    IF Len(s) = 0 THEN 0
    ELSE UnpackBE(SubSeq(s, 1, Len(s) - 1)) * 256 + s[Len(s)]

----------------------------------------------------------------------------
(* hashlib.sha256(x).digest()[:16]: stand-in, a 16-byte function of the    *)
(* content and length of x.                                                *)

DigestMix(x) ==
    LET w == [j \in 1..Len(x) |-> x[j] * (((j * 31 + 7) % 253) + 1)]
    IN  (SumMod(w, 1, Len(x), 65521) + 977 * (Len(x) % 4099) + 5381) % 65521

Sha256_16(x) ==
    LET m == DigestMix(x)
    IN  [i \in 1..ChecksumLen |->
            (((m * (2 * i + 5)) \div 7) + (m % 251) * i + 29 * i * i) % 256]

----------------------------------------------------------------------------
(* zlib: the container of RFC 1950 around one final deflate block.  The    *)
(* stand-in writes a stored block (what deflate emits for input it cannot  *)
(* shrink) or, for a run of one repeated byte, a four-byte run block that  *)
(* stands for a Huffman block with one long match.                         *)

\* zlib.adler32(d) as its four big-endian bytes
Adler32(d) ==
    LET n == Len(d)
        a == (1 + SumMod(d, 1, n, 65521)) % 65521
        wb == [j \in 1..n |-> ((n - j + 1) % 65521) * d[j]]
        b == (n + SumMod(wb, 1, n, 65521)) % 65521
    IN  <<b \div 256, b % 256, a \div 256, a % 256>>

IsRun(d) == Len(d) >= 8 /\ \A j \in 1..Len(d) : d[j] = d[1]

\* zlib.compress(data, level=9)
ZlibCompress(d) ==
    LET n == Len(d)
        body == IF IsRun(d)
                THEN <<3, d[1], n % 256, n \div 256>>
                ELSE <<1, n % 256, n \div 256, 255 - (n % 256), 255 - (n \div 256)>> \o d
    IN  <<120, 218>> \o body \o Adler32(d)

\* zlib.decompress(x): [exc, val]; bytes after the trailer are ignored
ZlibDecompress(x) ==
    LET fail == [exc |-> "zlib.error", val |-> <<>>]
        n == Len(x)
    IN  IF n < 3 THEN fail
        ELSE IF x[1] # 120 \/ (x[1] * 256 + x[2]) % 31 # 0 \/ (x[2] \div 32) % 2 = 1
        THEN fail
        ELSE IF x[3] % 8 = 1
        THEN \* stored block: LEN, NLEN, LEN bytes, Adler-32
             IF n < 7 THEN fail
             ELSE LET len == x[4] + 256 * x[5]
                  IN  IF x[6] # 255 - x[4] \/ x[7] # 255 - x[5] THEN fail
                      ELSE IF n < 7 + len + 4 THEN fail
                      ELSE LET d == SubSeq(x, 8, 7 + len)
                           IN  IF SubSeq(x, 8 + len, 11 + len) = Adler32(d)
                               THEN [exc |-> "none", val |-> d]
                               ELSE fail
        ELSE IF x[3] = 3
        THEN \* run block: byte, LEN, Adler-32
             IF n < 10 THEN fail
             ELSE LET len == x[5] + 256 * x[6]
                      d == [j \in 1..len |-> x[4]]
                  IN  IF SubSeq(x, 7, 10) = Adler32(d)
                      THEN [exc |-> "none", val |-> d]
                      ELSE fail
        ELSE fail

----------------------------------------------------------------------------
(* CryptoManager                                                           *)

\* a key derivation that leaves the password out: every password gives the
\* key of the salt
derive_key_salt_only(password, key_length) ==
    LET m == DigestMix(SALT)
    IN  [i \in 1..key_length |-> ((m * (i + 3)) \div 5 + (m % 241) * i + 17 * i) % 256]

\* _derive_key: PBKDF2-HMAC-SHA256 with the fixed salt; stand-in, key_length
\* bytes that are a function of the password and the salt
derive_key(password, key_length) ==
    LET m == DigestMix(password \o SALT)
    IN  [i \in 1..key_length |-> ((m * (i + 3)) \div 5 + (m % 241) * i + 17 * i) % 256]

\* GCM tag stand-in: 16 bytes that depend on key, nonce and ciphertext
GcmTag(key, iv, ciphertext) == Sha256_16(key \o iv \o ciphertext)

\* GCM keystream stand-in
KeyStream(key, iv, i) == (key[((i - 1) % Len(key)) + 1] + iv[((i - 1) % Len(iv)) + 1] + 7 * i) % 256

\* _encrypt_aes_gcm with the nonce get_random_bytes(12) returned
encrypt_aes_gcm(data, key, iv) ==
    LET ciphertext == [i \in 1..Len(data) |-> (data[i] + KeyStream(key, iv, i)) % 256]
        tag == GcmTag(key, iv, ciphertext)
    IN  iv \o tag \o ciphertext

\* _decrypt_aes_gcm: [exc, val]; every failure becomes ValueError
decrypt_aes_gcm(encrypted_data, key) ==
    LET iv == Slice(encrypted_data, 0, NonceLen)
        tag == Slice(encrypted_data, NonceLen, NonceLen + TagLen)
        ciphertext == Slice(encrypted_data, NonceLen + TagLen, Len(encrypted_data))
    IN  IF Len(iv) = 0 \/ Len(tag) < TagLen \/ tag # GcmTag(key, iv, ciphertext)
        THEN [exc |-> "ValueError", val |-> <<>>]
        ELSE [exc |-> "none",
              val |-> [i \in 1..Len(ciphertext) |->
                          (ciphertext[i] + 256 - KeyStream(key, iv, i)) % 256]]

\* CryptoManager.encrypt, default algorithm AES-256-GCM
encrypt(data, password, iv) == encrypt_aes_gcm(data, derive_key(password, KeyLen), iv)

\* CryptoManager.decrypt, default algorithm AES-256-GCM
decrypt(encrypted_data, password) ==
    decrypt_aes_gcm(encrypted_data, derive_key(password, KeyLen))

\* AES.block_size
BlockLen == 16

\* Crypto.Util.Padding.pad(data, block): PKCS#7
Pad(data, block) ==
    LET k == block - (Len(data) % block)
    IN  data \o [i \in 1..k |-> k]

\* Crypto.Util.Padding.unpad(padded, block): [exc, val]
Unpad(padded, block) ==
    LET n == Len(padded)
        fail == [exc |-> "ValueError", val |-> <<>>]
    IN  IF n = 0 \/ n % block # 0 THEN fail
        ELSE LET k == padded[n]
             IN  IF k < 1 \/ k > Min2(block, n) THEN fail
                 ELSE IF \E i \in (n - k + 1)..n : padded[i] # k THEN fail
                 ELSE [exc |-> "none", val |-> SubSeq(padded, 1, n - k)]

\* CBC block cipher stand-in: the byte added to plaintext byte i
CbcStream(key, iv, i) ==
    (key[((i - 1) % Len(key)) + 1] + iv[((i - 1) % Len(iv)) + 1]
     + 11 * ((i - 1) \div BlockLen)) % 256

\* _encrypt_aes_cbc with the iv get_random_bytes(16) returned
encrypt_aes_cbc(data, key, iv) ==
    LET padded_data == Pad(data, BlockLen)
        ciphertext == [i \in 1..Len(padded_data) |->
                          (padded_data[i] + CbcStream(key, iv, i)) % 256]
    IN  iv \o ciphertext

\* a CBC decryption that takes the ciphertext from the start of the input
decrypt_aes_cbc_no_iv(encrypted_data, key) ==
    LET iv == Slice(encrypted_data, 0, BlockLen)
        ciphertext == encrypted_data
    IN  IF Len(iv) # BlockLen \/ Len(ciphertext) % BlockLen # 0
        THEN [exc |-> "ValueError", val |-> <<>>]
        ELSE Unpad([i \in 1..Len(ciphertext) |->
                       (ciphertext[i] + 256 - CbcStream(key, iv, i)) % 256], BlockLen)

\* _decrypt_aes_cbc: [exc, val]; every failure becomes ValueError
decrypt_aes_cbc(encrypted_data, key) ==
    LET iv == Slice(encrypted_data, 0, BlockLen)
        ciphertext == Slice(encrypted_data, BlockLen, Len(encrypted_data))
    IN  IF Len(iv) # BlockLen \/ Len(ciphertext) % BlockLen # 0
        THEN [exc |-> "ValueError", val |-> <<>>]
        ELSE Unpad([i \in 1..Len(ciphertext) |->
                       (ciphertext[i] + 256 - CbcStream(key, iv, i)) % 256], BlockLen)

\* CryptoManager.encrypt with its algorithm argument
encrypt_algorithm(data, password, algorithm, iv) ==
    LET key == derive_key(password, KeyLen)
    IN  IF algorithm = "AES-256-GCM" THEN encrypt_aes_gcm(data, key, iv)
        ELSE encrypt_aes_cbc(data, key, iv)

\* CryptoManager.decrypt with its algorithm argument
decrypt_algorithm(encrypted_data, password, algorithm) ==
    LET key == derive_key(password, KeyLen)
    IN  IF algorithm = "AES-256-GCM" THEN decrypt_aes_gcm(encrypted_data, key)
        ELSE decrypt_aes_cbc(encrypted_data, key)

----------------------------------------------------------------------------
(* np.random.RandomState(seed).permutation(n): stand-in, a permutation of  *)
(* 0..n-1 (as a sequence) that is a function of the seed bytes and n.      *)

RECURSIVE Gcd(_, _)
Gcd(a, b) == IF b = 0 THEN a ELSE Gcd(b, a % b)

\* hashlib.sha256(password.encode()).digest()[:4], the generator's seed
PasswordSeed(password) == SubSeq(Sha256_16(password), 1, 4)

\* a generator whose output repeats indices: the stride divides the sample
\* count of a three-channel image
RepeatingPermutation(seed, n) ==
    LET s == seed[1] * 4099 + seed[2] * 257 + seed[3] * 17 + seed[4]
    IN  SeqOf([k \in 1..n |-> (Channels * (k - 1) + s) % n])

RandomPermutation(seed, n) ==
    LET s == seed[1] * 4099 + seed[2] * 257 + seed[3] * 17 + seed[4]
        c == s % n
        a0 == ((s \div 7) % n) + 1
        a == MinOf({x \in a0..(a0 + n) : Gcd(x, n) = 1})
    IN  [k \in 1..n |-> (a * (k - 1) + c) % n]

----------------------------------------------------------------------------
(* SteganoEngine: envelope                                                 *)

\* _create_secure_header, lines 188-197: the header from its field values
PackHeader(timestamp, original_size, processed_size, encrypted, compressed, checksum) ==
    MAGIC \o PackBE(timestamp, 8) \o PackBE(original_size, 4)
          \o PackBE(processed_size, 4) \o PackBE(encrypted, 1)
          \o PackBE(compressed, 1) \o checksum

\* a header whose checksum is taken over the processed payload
create_secure_header_processed_checksum(original_data, processed_data, encrypted, now) ==
    PackHeader(now, Len(original_data), Len(processed_data),
               IF encrypted THEN 1 ELSE 0, 1, Sha256_16(processed_data))

\* _create_secure_header; now is int(time.time())
create_secure_header(original_data, processed_data, encrypted, now) ==
    PackHeader(now, Len(original_data), Len(processed_data),
               IF encrypted THEN 1 ELSE 0, 1, Sha256_16(original_data))

\* an envelope that frames the payload without compressing it
prepare_data_stored(data, password, now, iv) ==
    LET processed == IF password # <<>> THEN encrypt(data, password, iv) ELSE data
    IN  create_secure_header(data, processed, password # <<>>, now) \o processed

\* _prepare_data_with_security; now and iv are the clock and nonce it draws
prepare_data_with_security(data, password, now, iv) ==
    LET compressed_data == ZlibCompress(data)
        processed == IF password # <<>> THEN encrypt(compressed_data, password, iv)
                     ELSE compressed_data
    IN  create_secure_header(data, processed, password # <<>>, now) \o processed

\* a parser that reads processed_size where original_size lies
ParseHeaderShifted(extracted_bytes) ==
    [timestamp |-> UnpackBE(Slice(extracted_bytes, 9, 17)),
     original_size |-> UnpackBE(Slice(extracted_bytes, 17, 21)),
     processed_size |-> UnpackBE(Slice(extracted_bytes, 17, 21)),
     encrypted |-> UnpackBE(Slice(extracted_bytes, 25, 26)),
     compressed |-> UnpackBE(Slice(extracted_bytes, 26, 27)),
     checksum |-> Slice(extracted_bytes, 27, 43)]

\* _process_extracted_data, lines 341-346: the header fields at their offsets
ParseHeader(extracted_bytes) ==
    [timestamp |-> UnpackBE(Slice(extracted_bytes, 9, 17)),
     original_size |-> UnpackBE(Slice(extracted_bytes, 17, 21)),
     processed_size |-> UnpackBE(Slice(extracted_bytes, 21, 25)),
     encrypted |-> UnpackBE(Slice(extracted_bytes, 25, 26)),
     compressed |-> UnpackBE(Slice(extracted_bytes, 26, 27)),
     checksum |-> Slice(extracted_bytes, 27, 43)]

----------------------------------------------------------------------------
(* SteganoEngine: bit embedder                                             *)

\* ''.join(format(byte, '08b') for byte in data) + '1111111111111110'
BinaryData(data) ==
    [k \in 1..(8 * Len(data) + MarkerLen) |->
        IF k <= 8 * Len(data) THEN ByteBit(data[((k - 1) \div 8) + 1], (k - 1) % 8)
        ELSE END_MARKER[k - 8 * Len(data)]]

\* a chunk read without ljust: a short last chunk is padded on the left
ChunkLeftPadded(binary_data, data_index, bits) ==
    LET have == Min2(bits, Len(binary_data) - data_index)
        t == [j \in 0..3 |->
                 IF j < have
                 THEN binary_data[data_index + j + 1] * 2 ^ (have - 1 - j) ELSE 0]
    IN  t[0] + t[1] + t[2] + t[3]

\* int(binary_data[data_index:data_index + bits].ljust(bits, '0'), 2)
Chunk(binary_data, data_index, bits) ==
    LET t == [j \in 0..3 |->
                 IF j < bits /\ data_index + j < Len(binary_data)
                 THEN binary_data[data_index + j + 1] * 2 ^ (bits - 1 - j) ELSE 0]
    IN  t[0] + t[1] + t[2] + t[3]

\* a write that ORs the chunk in without clearing the low bits first
WriteSampleUncleared(current_val, binary_data, data_index, bits) ==
    BitOr8(current_val, Chunk(binary_data, data_index, bits))

\* lines 223-231: the new value of one sample
WriteSample(current_val, binary_data, data_index, bits) ==
    LET mask == (255 \div 2 ^ bits) * 2 ^ bits
        cleared_val == BitAnd8(current_val, mask)
    IN  BitOr8(cleared_val, Chunk(binary_data, data_index, bits))

\* number of samples the write loop visits
ChunkCount(required_bits, bits, n) == Min2(n, (required_bits + bits - 1) \div bits)

\* _lsb_embed_secure without its capacity check: the loop ends with the image
lsb_embed_secure_unchecked(img_array, data, bits) ==
    LET binary_data == SeqOf(BinaryData(data))
        cnt == ChunkCount(Len(binary_data), bits, Len(img_array))
    IN  [exc |-> "none",
         ret |-> SeqOf([i \in 1..Len(img_array) |->
                          IF i <= cnt
                          THEN WriteSample(img_array[i], binary_data, (i - 1) * bits, bits)
                          ELSE img_array[i]]),
         arg |-> img_array,
         visited |-> [k \in 1..cnt |-> k - 1]]

\* an embedder that writes into the caller's array and checks the capacity
\* after the loop
lsb_embed_secure_in_place(img_array, data, bits) ==
    LET u == lsb_embed_secure_unchecked(img_array, data, bits)
    IN  IF Len(BinaryData(data)) > Len(img_array) * bits
        THEN [exc |-> "ValueError:capacity", ret |-> <<>>, arg |-> u.ret,
              visited |-> u.visited]
        ELSE [u EXCEPT !.arg = u.ret]

\* _lsb_embed_secure: [exc, ret, arg, visited]; arg is the caller's array
\* after the call (flatten() copies, so it is untouched)
lsb_embed_secure(img_array, data, bits) ==
    LET binary_data == SeqOf(BinaryData(data))
        flat_img == img_array
        required_bits == Len(binary_data)
        available_bits == Len(flat_img) * bits
    IN  IF required_bits > available_bits
        THEN [exc |-> "ValueError:capacity", ret |-> <<>>, arg |-> img_array,
              visited |-> <<>>]
        ELSE LET cnt == ChunkCount(required_bits, bits, Len(flat_img))
             IN  [exc |-> "none",
                  ret |-> SeqOf([i \in 1..Len(flat_img) |->
                             IF i <= cnt
                             THEN WriteSample(flat_img[i], binary_data, (i - 1) * bits, bits)
                             ELSE flat_img[i]]),
                  arg |-> img_array,
                  visited |-> [k \in 1..cnt |-> k - 1]]

\* the loop of _lsb_random_embed, lines 252-267, for positions lo..hi of
\* indices, in order (split in halves, the left half evaluated first, to keep the
\* evaluation shallow)
RECURSIVE RandomWriteLoop(_, _, _, _, _, _)
RandomWriteLoop(flat_img, indices, binary_data, bits, lo, hi) ==
    IF lo > hi THEN flat_img
    ELSE IF lo = hi
    THEN [flat_img EXCEPT ![indices[lo] + 1] =
             WriteSample(flat_img[indices[lo] + 1], binary_data, (lo - 1) * bits, bits)]
    ELSE LET mid == (lo + hi) \div 2
             left == RandomWriteLoop(flat_img, indices, binary_data, bits, lo, mid)
         IN  IF Len(left) = 0 THEN left
             ELSE RandomWriteLoop(left, indices, binary_data, bits, mid + 1, hi)

\* _lsb_random_embed, lines 246-269: the write loop over indices
PermutedEmbed(img_array, data, bits, indices) ==
    LET flat_img == img_array
        binary_data == SeqOf(BinaryData(data))
        cnt == ChunkCount(Len(binary_data), bits, Len(flat_img))
    IN  [exc |-> "none",
         ret |-> RandomWriteLoop(flat_img, indices, binary_data, bits, 1, cnt),
         arg |-> img_array,
         visited |-> SubSeq(indices, 1, cnt)]

\* _lsb_random_embed with the generator seeded from the framed data
lsb_random_embed_data_seed(img_array, data, bits, password) ==
    PermutedEmbed(img_array, data, bits,
                  RandomPermutation(PasswordSeed(data), Len(img_array)))

\* _lsb_random_embed: no capacity check; the loop ends with the indices
lsb_random_embed(img_array, data, bits, password) ==
    LET seed == PasswordSeed(password)
        indices == RandomPermutation(seed, Len(img_array))
    IN  PermutedEmbed(img_array, data, bits, indices)

----------------------------------------------------------------------------
(* SteganoEngine: bit extractor                                            *)

\* bit k (0-based) of the joined format(lsb_bits, f'0{bits}b') groups
GroupBit(groups, bits, k) ==
    (groups[(k \div bits) + 1] \div 2 ^ (bits - 1 - (k % bits))) % 2

\* the end marker starts at bit i of the joined groups
MarkerAt(groups, bits, i) ==
    \A j \in 0..(MarkerLen - 1) : GroupBit(groups, bits, i + j) = END_MARKER[j + 1]

\* the first i in lo..hi at which the marker starts, or -1 (the range is
\* split in halves and the left half searched first)
RECURSIVE FirstMarker(_, _, _, _)
FirstMarker(groups, bits, lo, hi) ==
    IF lo > hi THEN -1
    ELSE IF lo = hi THEN (IF MarkerAt(groups, bits, lo) THEN lo ELSE -1)
    ELSE LET mid == (lo + hi) \div 2
             left == FirstMarker(groups, bits, lo, mid)
         IN  IF left >= 0 THEN left ELSE FirstMarker(groups, bits, mid + 1, hi)

\* binary_data.rindex(end_marker): the last occurrence instead of the first
MarkerIndexLast(groups, bits) ==
    LET at == {i \in 0..(Len(groups) * bits - MarkerLen) : MarkerAt(groups, bits, i)}
    IN  IF at = {} THEN -1 ELSE CHOOSE i \in at : \A j \in at : j <= i

\* binary_data.index(end_marker), or -1 when the marker does not occur
MarkerIndex(groups, bits) ==
    FirstMarker(groups, bits, 0, Len(groups) * bits - MarkerLen)

\* a conversion that keeps a trailing group of fewer than 8 bits as a byte
BitsToBytesPadded(groups, bits) ==
    LET at == MarkerIndex(groups, bits)
        len == IF at < 0 THEN Len(groups) * bits ELSE at
    IN  SeqOf([m \in 1..((len + 7) \div 8) |->
            LET t == [j \in 0..7 |->
                         IF 8 * (m - 1) + j < len
                         THEN GroupBit(groups, bits, 8 * (m - 1) + j) * 2 ^ (7 - j)
                         ELSE 0]
            IN  t[0] + t[1] + t[2] + t[3] + t[4] + t[5] + t[6] + t[7]])

\* lines 280-292: cut at the marker, then whole bytes only
BitsToBytes(groups, bits) ==
    LET at == MarkerIndex(groups, bits)
        len == IF at < 0 THEN Len(groups) * bits ELSE at
    IN  SeqOf([m \in 1..(len \div 8) |->
            LET t == [j \in 0..7 |-> GroupBit(groups, bits, 8 * (m - 1) + j) * 2 ^ (7 - j)]
            IN  t[0] + t[1] + t[2] + t[3] + t[4] + t[5] + t[6] + t[7]])

\* pixel & ((1 << bits) - 1)
LowBits(pixel, bits) == pixel % (2 ^ bits)

\* a read loop that looks for the marker after every sample and stops at
\* the sample whose bits complete its first occurrence
ReadLoopUntilMarker(flat_img, bits) ==
    LET groups == SeqOf([i \in 1..Len(flat_img) |-> LowBits(flat_img[i], bits)])
        at == MarkerIndex(groups, bits)
    IN  IF at < 0 THEN groups
        ELSE SubSeq(groups, 1, ((at + MarkerLen - 1) \div bits) + 1)

\* lines 275-278: the groups of low bits appended to binary_data, one for
\* every sample the loop reads
ReadLoop(flat_img, bits) ==
    SeqOf([i \in 1..Len(flat_img) |-> LowBits(flat_img[i], bits)])

\* _lsb_extract_secure
lsb_extract_secure(img_array, bits) ==
    LET flat_img == img_array
        groups == ReadLoop(flat_img, bits)
    IN  BitsToBytes(groups, bits)

\* the loop of _lsb_random_extract, lines 307-310, for positions lo..hi of
\* indices: binary_data[idx] = the low bits of flat_img[idx]
RECURSIVE RandomReadLoop(_, _, _, _, _, _)
RandomReadLoop(binary_data, flat_img, indices, bits, lo, hi) ==
    IF lo > hi THEN binary_data
    ELSE IF lo = hi
    THEN [binary_data EXCEPT ![indices[lo] + 1] = LowBits(flat_img[indices[lo] + 1], bits)]
    ELSE LET mid == (lo + hi) \div 2
             left == RandomReadLoop(binary_data, flat_img, indices, bits, lo, mid)
         IN  IF Len(left) = 0 THEN left
             ELSE RandomReadLoop(left, flat_img, indices, bits, mid + 1, hi)

\* _lsb_random_extract
lsb_random_extract(img_array, bits, password) ==
    LET seed == PasswordSeed(password)
        flat_img == img_array
        indices == RandomPermutation(seed, Len(flat_img))
        empty == SeqOf([i \in 1..Len(flat_img) |-> 0])
        binary_data == RandomReadLoop(empty, flat_img, indices, bits, 1, Len(indices))
    IN  BitsToBytes(binary_data, bits)

----------------------------------------------------------------------------
(* SteganoEngine: unpack                                                   *)

\* An extraction_info dict: keys is the set of keys present; a field whose
\* key is absent holds its default.
Info(keys, success, legacy_mode, integrity_verified, h, error) ==
    [keys |-> keys, success |-> success, legacy_mode |-> legacy_mode,
     integrity_verified |-> integrity_verified,
     timestamp |-> h.timestamp, original_size |-> h.original_size,
     encrypted |-> h.encrypted # 0, compressed |-> h.compressed # 0,
     error |-> error]

NoHeader == [timestamp |-> 0, original_size |-> 0, processed_size |-> 0,
             encrypted |-> 0, compressed |-> 0, checksum |-> <<>>]

LegacyKeys == {"legacy_mode"}

SecureKeys == {"success", "timestamp", "original_size", "encrypted", "compressed",
               "integrity_verified", "extraction_method"}

\* a decrypt condition that ignores the password
DecryptAlways(encrypted, password) == encrypted # 0

\* line 351: if encrypted and password
DecryptNeeded(encrypted, password) == encrypted # 0 /\ password # <<>>

\* a checksum comparison that accepts everything
IntegrityAlwaysOk(checksum, data_part) == TRUE

\* lines 361-362: integrity_ok
IntegrityOk(checksum, data_part) ==
    LET calculated_checksum == Sha256_16(data_part)
    IN  checksum = calculated_checksum

\* an outer try in which a checksum mismatch raises and the payload is dropped
StructuredDecodeStrict(extracted_bytes, password) ==
    IF Len(extracted_bytes) < MinHeaderLen
    THEN [exc |-> "none", data |-> extracted_bytes,
          info |-> Info(LegacyKeys, FALSE, TRUE, FALSE, NoHeader, "")]
    ELSE IF SubSeq(extracted_bytes, 1, 9) # MAGIC
    THEN [exc |-> "none", data |-> extracted_bytes,
          info |-> Info(LegacyKeys, FALSE, TRUE, FALSE, NoHeader, "")]
    ELSE
    LET h == ParseHeader(extracted_bytes)
        data_part == Slice(extracted_bytes, HeaderLen, HeaderLen + h.processed_size)
        dec == IF DecryptNeeded(h.encrypted, password)
               THEN decrypt(data_part, password)
               ELSE [exc |-> "none", val |-> data_part]
        unz == IF dec.exc # "none" THEN dec
               ELSE IF h.compressed # 0 THEN ZlibDecompress(dec.val)
               ELSE dec
    IN  IF unz.exc # "none"
        THEN [exc |-> unz.exc, data |-> <<>>,
              info |-> Info({}, FALSE, FALSE, FALSE, NoHeader, "")]
        ELSE IF ~IntegrityOk(h.checksum, unz.val)
        THEN [exc |-> "ValueError", data |-> <<>>,
              info |-> Info({}, FALSE, FALSE, FALSE, NoHeader, "")]
        ELSE [exc |-> "none", data |-> unz.val,
              info |-> Info(SecureKeys, TRUE, FALSE, TRUE, h, "")]

\* lines 332-374, the body of the outer try: [exc, data, info]
StructuredDecode(extracted_bytes, password) ==
    IF Len(extracted_bytes) < MinHeaderLen
    THEN [exc |-> "none", data |-> extracted_bytes,
          info |-> Info(LegacyKeys, FALSE, TRUE, FALSE, NoHeader, "")]
    ELSE IF SubSeq(extracted_bytes, 1, 9) # MAGIC
    THEN [exc |-> "none", data |-> extracted_bytes,
          info |-> Info(LegacyKeys, FALSE, TRUE, FALSE, NoHeader, "")]
    ELSE
    LET h == ParseHeader(extracted_bytes)
        data_part == Slice(extracted_bytes, HeaderLen, HeaderLen + h.processed_size)
        dec == IF DecryptNeeded(h.encrypted, password)
               THEN decrypt(data_part, password)
               ELSE [exc |-> "none", val |-> data_part]
        unz == IF dec.exc # "none" THEN dec
               ELSE IF h.compressed # 0 THEN ZlibDecompress(dec.val)
               ELSE dec
    IN  IF unz.exc # "none"
        THEN [exc |-> unz.exc, data |-> <<>>,
              info |-> Info({}, FALSE, FALSE, FALSE, NoHeader, "")]
        ELSE LET integrity_ok == IntegrityOk(h.checksum, unz.val)
             IN  [exc |-> "none", data |-> unz.val,
                  info |-> Info(SecureKeys, TRUE, FALSE, integrity_ok, h, "")]

\* an except branch whose inner handler is missing: a failed legacy
\* decompression propagates
LegacyFallbackUnguarded(extracted_bytes, e) ==
    LET decompressed == ZlibDecompress(extracted_bytes)
    IN  [exc |-> decompressed.exc, data |-> decompressed.val,
         info |-> Info({"legacy_mode", "success"}, TRUE, TRUE, FALSE, NoHeader, "")]

\* lines 376-382, the except branch: legacy decompression, then the raw bytes
LegacyFallback(extracted_bytes, e) ==
    LET decompressed == ZlibDecompress(extracted_bytes)
    IN  IF decompressed.exc = "none"
        THEN [exc |-> "none", data |-> decompressed.val,
              info |-> Info({"legacy_mode", "success"}, TRUE, TRUE, FALSE, NoHeader, "")]
        ELSE [exc |-> "none", data |-> extracted_bytes,
              info |-> Info({"success", "error"}, FALSE, FALSE, FALSE, NoHeader, e)]

\* an unpack that tries the legacy decompression before the envelope
process_extracted_data_legacy_first(extracted_bytes, password) ==
    LET decompressed == ZlibDecompress(extracted_bytes)
        r == StructuredDecode(extracted_bytes, password)
    IN  IF decompressed.exc = "none"
        THEN [exc |-> "none", data |-> decompressed.val,
              info |-> Info({"legacy_mode", "success"}, TRUE, TRUE, FALSE, NoHeader, "")]
        ELSE IF r.exc = "none" THEN r
        ELSE [exc |-> "none", data |-> extracted_bytes,
              info |-> Info({"success", "error"}, FALSE, FALSE, FALSE, NoHeader, r.exc)]

\* _process_extracted_data
process_extracted_data(extracted_bytes, password) ==
    LET r == StructuredDecode(extracted_bytes, password)
    IN  IF r.exc = "none" THEN r ELSE LegacyFallback(extracted_bytes, r.exc)

----------------------------------------------------------------------------
(* SteganoEngine: public operations                                        *)

\* _validate_inputs: the exception it raises, or "none"
validate_inputs(path_exists, data, bits) ==
    IF ~path_exists THEN "FileNotFoundError"
    ELSE IF bits \notin {1, 2, 3, 4} THEN "ValueError:bits"
    ELSE IF Len(data) = 0 THEN "ValueError:empty"
    ELSE "none"

\* _generate_metadata (the fields that depend on the call)
generate_metadata(original_data, processed_data, bits, technique, password) ==
    [technique |-> technique, bits_used |-> bits, password_used |-> password # <<>>,
     original_size |-> Len(original_data), processed_size |-> Len(processed_data)]

NoMetadata == [technique |-> "", bits_used |-> 0, password_used |-> FALSE,
               original_size |-> 0, processed_size |-> 0]

\* embed_data_secure: [exc, ret, arg, visited, metadata]
embed_data_secure(path_exists, img_array, data, password, bits, technique, now, iv) ==
    LET v == validate_inputs(path_exists, data, bits)
    IN  IF v # "none"
        THEN [exc |-> v, ret |-> <<>>, arg |-> img_array, visited |-> <<>>,
              metadata |-> NoMetadata]
        ELSE
        LET processed_data == prepare_data_with_security(data, password, now, iv)
            r == IF technique = "LSB" THEN lsb_embed_secure(img_array, processed_data, bits)
                 ELSE IF technique = "LSB_RANDOM"
                 THEN lsb_random_embed(img_array, processed_data, bits, password)
                 ELSE lsb_embed_secure(img_array, processed_data, bits)
        IN  [exc |-> r.exc, ret |-> r.ret, arg |-> r.arg, visited |-> r.visited,
             metadata |-> IF r.exc = "none"
                          THEN generate_metadata(data, processed_data, bits, technique,
                                                 password)
                          ELSE NoMetadata]

\* the number of samples the extractor's loop reads: lines 276-278 append one
\* group per sample read; lines 307-310 run once for every index of the
\* permutation
samples_read(img_array, bits, technique) ==
    IF technique = "LSB_RANDOM"
    THEN Len(img_array)
    ELSE Len(ReadLoop(img_array, bits))

\* extract_data_secure on the saved stego image: [exc, data, info], with the
\* bytes the bit extractor returned and the number of samples it read

extract_data_secure(img_array, password, bits, technique) ==
    LET extracted_bytes == IF technique = "LSB_RANDOM"
                           THEN lsb_random_extract(img_array, bits, password)
                           ELSE lsb_extract_secure(img_array, bits)
        r == process_extracted_data(extracted_bytes, password)
    IN  [exc |-> r.exc, data |-> r.data, info |-> r.info,
         extracted_bytes |-> extracted_bytes,
         samples_read |-> samples_read(img_array, bits, technique)]

\* line 134: the pixel count above which an image is large
LargeImagePixels == 1000000

\* an advisory chosen by the number of samples (height * width * channels)
security_recommendations_by_samples(sh) ==
    IF sh[1] * sh[2] * sh[3] > LargeImagePixels
    THEN <<"Use 1-2 bit LSB for better stealth in large images">>
    ELSE <<"Use 2-4 bit LSB for optimal capacity in small images">>

\* lines 133-141: analysis['security_recommendations'] for an image of shape sh
security_recommendations(sh) ==
    IF sh[1] * sh[2] > LargeImagePixels
    THEN <<"Use 1-2 bit LSB for better stealth in large images">>
    ELSE <<"Use 2-4 bit LSB for optimal capacity in small images">>

\* an analyzer that counts pixels (height * width) instead of samples
analyze_capacity_pixels(img_array, sh) ==
    [image_info |-> [dimensions |-> sh, total_pixels |-> Len(img_array),
                     channels |-> sh[3]],
     capacity_analysis |->
         [bit_depth \in 1..4 |->
             LET capacity_bits == sh[1] * sh[2] * bit_depth
                 capacity_bytes == (capacity_bits - ReserveBits) \div 8
             IN  [bytes |-> capacity_bytes, bits_used |-> bit_depth]],
     security_recommendations |-> security_recommendations(sh)]

\* analyze_capacity (the rounded kilobytes / megabytes figures are left out)
analyze_capacity(img_array, sh) ==
    [image_info |-> [dimensions |-> sh, total_pixels |-> Len(img_array),
                     channels |-> sh[3]],
     capacity_analysis |->
         [bit_depth \in 1..4 |->
             LET capacity_bits == Len(img_array) * bit_depth
                 capacity_bytes == (capacity_bits - ReserveBits) \div 8
             IN  [bytes |-> capacity_bytes, bits_used |-> bit_depth]],
     security_recommendations |-> security_recommendations(sh)]

----------------------------------------------------------------------------
(* Validators                                                              *)

\* shortest and longest non-empty password validate_password accepts
MinPasswordLen == 4
MaxPasswordLen == 100

\* an optional argument: <<>> is None, <<v>> is the value v
None == <<>>
Some(v) == <<v>>

\* a validate_password whose length test is off by one
validate_password_off_by_one(password, confirm_password) ==
    IF Len(password) = 0 THEN [valid |-> TRUE, message |-> ""]
    ELSE IF Len(password) <= MinPasswordLen
    THEN [valid |-> FALSE, message |-> "Password must be at least 4 characters"]
    ELSE IF Len(password) > MaxPasswordLen
    THEN [valid |-> FALSE, message |-> "Password too long"]
    ELSE IF confirm_password # None /\ password # confirm_password[1]
    THEN [valid |-> FALSE, message |-> "Passwords do not match"]
    ELSE [valid |-> TRUE, message |-> "Password is valid"]

\* Validators.validate_password: (is_valid, message)
validate_password(password, confirm_password) ==
    IF Len(password) = 0 THEN [valid |-> TRUE, message |-> ""]
    ELSE IF Len(password) < MinPasswordLen
    THEN [valid |-> FALSE, message |-> "Password must be at least 4 characters"]
    ELSE IF Len(password) > MaxPasswordLen
    THEN [valid |-> FALSE, message |-> "Password too long"]
    ELSE IF confirm_password # None /\ password # confirm_password[1]
    THEN [valid |-> FALSE, message |-> "Passwords do not match"]
    ELSE [valid |-> TRUE, message |-> "Password is valid"]

\* a Python value handed as bits: its type and, for a number, its value
\* (True is 1 and False is 0; a str or None has value 0 here)
PyValue(type, value) == [type |-> type, value |-> value]

\* isinstance(bits, int): bool is a subclass of int
IsInstanceInt(bits) == bits.type \in {"int", "bool"}

\* a validate_lsb_bits that lets 0 through
validate_lsb_bits_from_zero(bits) ==
    IF ~IsInstanceInt(bits) THEN [valid |-> FALSE, message |-> "Bits must be an integer"]
    ELSE IF bits.value < 0 \/ bits.value > 4
    THEN [valid |-> FALSE, message |-> "Bits must be between 1 and 4"]
    ELSE [valid |-> TRUE, message |-> "Bits value is valid"]

\* Validators.validate_lsb_bits: (is_valid, message)
validate_lsb_bits(bits) ==
    IF ~IsInstanceInt(bits) THEN [valid |-> FALSE, message |-> "Bits must be an integer"]
    ELSE IF bits.value < 1 \/ bits.value > 4
    THEN [valid |-> FALSE, message |-> "Bits must be between 1 and 4"]
    ELSE [valid |-> TRUE, message |-> "Bits value is valid"]

----------------------------------------------------------------------------
(* Inputs                                                                  *)

\* a carrier of the given shape; samples in 0..255
Carrier(sh) ==
    SeqOf([i \in 1..(sh[1] * sh[2] * sh[3]) |-> (7 * ((i * i) % 256) + 13 * i + 5) % 256])

Shapes == {<<r, Cols, Channels>> : r \in {SmallRows, MidRows, LargeRows}}

Payloads == {<<72>>, <<72, 105>>}

PW_A == <<112, 119, 49, 50>>
PW_B == <<107, 101, 121, 57>>

Passwords == {<<>>, PW_A, PW_B}

Techniques == {"LSB", "LSB_RANDOM"}

\* int(time.time()) at the embed: an ordinary second, and the second
\* 0x6AFFFE00 whose big-endian bytes hold FF FE
Timestamps == {1793750000, 1795161600}

\* get_random_bytes(12): an ordinary nonce, and one that holds FF FE
Nonces == {[i \in 1..NonceLen |-> (17 * i + 3) % 256],
           [i \in 1..NonceLen |-> IF i = 5 THEN 255 ELSE IF i = 6 THEN 254
                                  ELSE (29 * i) % 256]}

NoDraw == [now |-> 0, iv |-> <<>>]

\* what one embed call draws: nothing when validation raises, the clock
\* always otherwise, a nonce only when a password is given
Draws(path_exists, data, password, bits) ==
    IF validate_inputs(path_exists, data, bits) # "none" THEN {NoDraw}
    ELSE IF password = <<>> THEN {[now |-> t, iv |-> <<>>] : t \in Timestamps}
    ELSE {[now |-> t, iv |-> n] : t \in Timestamps, n \in Nonces}

NoReq == [path_exists |-> TRUE, data |-> <<>>, password |-> <<>>, bits |-> 0,
          technique |-> ""]

NoRun == [req |-> NoReq, draw |-> NoDraw, stego |-> <<>>, exc |-> "none",
          visited |-> <<>>, meta |-> NoMetadata]

NoOut == [exc |-> "none", data |-> <<>>, password |-> <<>>,
          info |-> Info({}, FALSE, FALSE, FALSE, NoHeader, "")]

----------------------------------------------------------------------------
(* State machine                                                           *)

\* the engine before any call, on a carrier of one of the shapes
InitEngine(shapes) ==
    /\ shape \in shapes
    /\ img = Carrier(shape)
    /\ pc = "idle"
    /\ req = NoReq
    /\ draw = NoDraw
    /\ stego = <<>>
    /\ exc = "none"
    /\ visited = <<>>
    /\ meta = NoMetadata
    /\ prev = NoRun
    /\ flip = -1
    /\ out = NoOut

\* no crypto or validator call yet
NoInput == [kind |-> "none"]
NoResult == [kind |-> "none"]

InitWith(shapes) ==
    /\ InitEngine(shapes)
    /\ fields = NoHeader
    /\ raw = <<>>
    /\ parsed = NoHeader
    /\ input = NoInput
    /\ result = NoResult

Init == InitWith(Shapes)

\* one call of embed_data_secure with request r and draws d
DoEmbed(r, d) ==
    \E e \in {embed_data_secure(r.path_exists, img, r.data, r.password, r.bits,
                                 r.technique, d.now, d.iv)} :
        /\ req' = r
        /\ draw' = d
        /\ img' = e.arg
        /\ stego' = e.ret
        /\ exc' = e.exc
        /\ visited' = e.visited
        /\ meta' = e.metadata
        /\ pc' = IF e.exc = "none" THEN "embedded" ELSE "embed_failed"
        /\ flip' = -1
        /\ out' = NoOut
        /\ UNCHANGED <<shape, input, result, fields, raw, parsed>>

\* embed_data_secure on a valid request
EmbedCall(datas, passwords, bitss, techniques) ==
    /\ pc = "idle"
    /\ \E data \in datas, password \in passwords, bits \in bitss,
          technique \in techniques :
          LET r == [path_exists |-> TRUE, data |-> data, password |-> password,
                    bits |-> bits, technique |-> technique]
          IN  \E d \in Draws(TRUE, data, password, bits) :
                  DoEmbed(r, d) /\ UNCHANGED prev

\* embed_data_secure on a request that validation rejects
EmbedInvalid ==
    /\ pc = "idle"
    /\ \E path_exists \in BOOLEAN, data \in Payloads \cup {<<>>},
          bits \in 0..5, technique \in Techniques :
          /\ validate_inputs(path_exists, data, bits) # "none"
          /\ DoEmbed([path_exists |-> path_exists, data |-> data, password |-> <<>>,
                      bits |-> bits, technique |-> technique], NoDraw)
          /\ UNCHANGED prev

\* extract_data_secure on the stego image, with the embed's bit depth and
\* technique
ExtractCall(passwords) ==
    /\ pc = "embedded"
    /\ \E password \in passwords :
          \E x \in {extract_data_secure(stego, password, req.bits, req.technique)} :
              /\ out' = [exc |-> x.exc, data |-> x.data, password |-> password,
                         info |-> x.info]
              /\ result' = [kind |-> "extract", extracted_bytes |-> x.extracted_bytes,
                            samples_read |-> x.samples_read]
    /\ pc' = "extracted"
    /\ UNCHANGED <<img, shape, input, req, draw, stego, exc, visited, meta, prev, flip,
                   fields, raw, parsed>>

\* the bits that are flipped: with nbits embedded bits and a stream of
\* nbits - pad real bits, whole bytes of each header field, of the payload's
\* ends and of the marker, and the padding
FlipChoice(nbits) ==
    LET L == 8 * meta.processed_size + MarkerLen
    IN  (0..7) \cup (128..135) \cup (160..167) \cup (192..231) \cup (336..359)
        \cup ((L - 32)..(nbits - 1))

\* the value of a sample with one of its bits flipped
FlipWeight(v, w) == IF (v \div w) % 2 = 1 THEN v - w ELSE v + w

\* bit offsets k of the embedded stream whose flip keeps every header number
\* below 2^31: all but the high bytes of the three big-endian numbers
FlipOffsets(nbits) ==
    {k \in 0..(nbits - 1) : ~(k \in 72..104 \/ k = 136 \/ k = 168) /\ k \in FlipChoice(nbits)}

\* the stego image is altered between embed and extract: embedded bit k, one
\* low-order bit of a sample the embed wrote, is flipped
TamperBit ==
    /\ pc = "embedded"
    /\ flip = -1
    /\ \E k \in FlipOffsets(Len(visited) * req.bits) :
          LET i == visited[(k \div req.bits) + 1] + 1
              w == 2 ^ (req.bits - 1 - (k % req.bits))
          IN  /\ stego' = [stego EXCEPT ![i] = FlipWeight(stego[i], w)]
              /\ flip' = k
    /\ UNCHANGED <<img, shape, input, result, pc, req, draw, exc, visited, meta, prev, out,
                   fields, raw, parsed>>

Next ==
    \/ EmbedCall(Payloads, Passwords, 1..4, Techniques)
    \/ EmbedInvalid
    \/ ExtractCall({req.password})

Spec == Init /\ [][Next]_vars

\* a second embed_data_secure call on the same image with the same payload,
\* bit depth and technique, and any password
EmbedAgain(passwords) ==
    /\ pc = "embedded"
    /\ prev = NoRun
    /\ \E password \in passwords :
          \E d \in Draws(TRUE, req.data, password, req.bits) :
              /\ DoEmbed([req EXCEPT !.password = password], d)
              /\ prev' = [req |-> req, draw |-> draw, stego |-> stego, exc |-> exc,
                          visited |-> visited, meta |-> meta]

\* two embeds with the permuted technique on the small and the middle carrier
NextRuns ==
    \/ EmbedCall(Payloads, Passwords, 1..4, {"LSB_RANDOM"})
    \/ EmbedAgain(Passwords)

SpecRuns ==
    InitWith({<<SmallRows, Cols, Channels>>, <<MidRows, Cols, Channels>>})
    /\ [][NextRuns]_vars

\* embed on the large carrier with the sequential technique, one bit of the
\* embedded region flipped, extract
NextTamper ==
    \/ EmbedCall({<<72, 105>>}, {<<>>, PW_A}, 1..4, {"LSB"})
    \/ TamperBit
    \/ ExtractCall({req.password})

SpecTamper == InitWith({<<LargeRows, Cols, Channels>>}) /\ [][NextTamper]_vars

\* values of the header's three numbers, of each flag byte and of the
\* checksum
HeaderTimestamps == Timestamps \cup {0, 1, 255, 256, 2147483647}
HeaderSizes == {0, 1, 255, 256, 65534, 65535, 16777216, 2147483647}
HeaderFlags == {0, 1, 255}
HeaderChecksums == {Sha256_16(<<72>>), [i \in 1..ChecksumLen |-> 255]}

HeaderFields ==
    [timestamp : HeaderTimestamps, original_size : HeaderSizes,
     processed_size : {0, 65534, 2147483647}, encrypted : HeaderFlags,
     compressed : HeaderFlags, checksum : HeaderChecksums]

InitHeader ==
    /\ InitEngine({<<SmallRows, Cols, Channels>>})
    /\ fields \in HeaderFields
    /\ raw = <<>>
    /\ parsed = NoHeader
    /\ input = NoInput
    /\ result = NoResult

\* lines 188-197: the field values are packed into a header
PackCall ==
    /\ pc = "idle"
    /\ raw' = PackHeader(fields.timestamp, fields.original_size, fields.processed_size,
                         fields.encrypted, fields.compressed, fields.checksum)
    /\ pc' = "packed"
    /\ UNCHANGED <<img, shape, input, result, req, draw, stego, exc, visited, meta, prev, flip, out,
                   fields, parsed>>

\* lines 341-346: the packed header is parsed
ParseCall ==
    /\ pc = "packed"
    /\ parsed' = ParseHeader(raw)
    /\ pc' = "parsed"
    /\ UNCHANGED <<img, shape, input, result, req, draw, stego, exc, visited, meta, prev, flip, out,
                   fields, raw>>

NextHeader == PackCall \/ ParseCall

SpecHeader == InitHeader /\ [][NextHeader]_vars

\* x with byte k (1-based) replaced by the next byte value
Corrupt(x, k) == [x EXCEPT ![k] = (x[k] + 1) % 256]

\* positions at which a framed stream is corrupted: magic, low timestamp
\* bytes, the sizes, the flags, the checksum, the payload's first and last
\* bytes
CorruptPositions(x) ==
    {1, 9, 14, 17, 18, 21, 22, 24, 25, 26, 27, 28, 43, 44, 45, Len(x) - 1, Len(x)}

\* lengths at which a framed stream is cut
CutLengths(x) == {0, 8, 9, 31, 32, 42, 43, 44, Len(x) - 1}

\* the framed streams of the payloads, whole, cut short, with one byte
\* changed, and followed by other bytes
Framed == {prepare_data_with_security(d, p, 1793750000, CHOOSE n \in Nonces : n[5] # 255)
              : d \in Payloads, p \in Passwords}

ExtractedStrings ==
    UNION {{x} \cup {SubSeq(x, 1, n) : n \in CutLengths(x)}
               \cup {Corrupt(x, k) : k \in CorruptPositions(x)}
               \cup {x \o <<0, 255>>}
           : x \in Framed}
    \cup {ZlibCompress(d) : d \in Payloads}
    \cup {[i \in 1..n |-> (37 * i) % 256] : n \in {1, 32, 64}}

InitUnpack ==
    /\ InitEngine({<<SmallRows, Cols, Channels>>})
    /\ fields = NoHeader
    /\ raw \in ExtractedStrings
    /\ parsed = NoHeader
    /\ input = NoInput
    /\ result = NoResult

\* _process_extracted_data on the bytes raw with any password
UnpackCall ==
    /\ pc = "idle"
    /\ \E password \in Passwords :
          \E x \in {process_extracted_data(raw, password)} :
              out' = [exc |-> x.exc, data |-> x.data, password |-> password,
                      info |-> x.info]
    /\ pc' = "unpacked"
    /\ UNCHANGED <<img, shape, input, result, req, draw, stego, exc, visited, meta, prev, flip,
                   fields, raw, parsed>>

NextUnpack == UnpackCall

SpecUnpack == InitUnpack /\ [][NextUnpack]_vars

\* the test image: height and width of _create_test_image
ScenarioRows == 100
ScenarioCols == 100

\* 38-byte strings of printable ASCII
ShortPayloads == {SeqOf([i \in 1..38 |-> 32 + ((k * i + 11 * k) % 95)]) : k \in 1..10}

\* 5,000-byte payloads: two of one repeated byte, four of mixed bytes
LongPayloads ==
    {SeqOf([i \in 1..5000 |-> c]) : c \in {0, 65}}
    \cup {SeqOf([i \in 1..5000 |-> (k * i * i + 3 * i + k) % 256]) : k \in {1, 2, 5, 7}}

\* embed into the test image without a password, sequential technique, bit
\* depth 1 or 2, then extract
NextScenario ==
    \/ EmbedCall(ShortPayloads \cup LongPayloads, {<<>>}, {1, 2}, {"LSB"})
    \/ ExtractCall({req.password})

SpecScenario ==
    InitWith({<<ScenarioRows, ScenarioCols, Channels>>}) /\ [][NextScenario]_vars

\* byte strings handed to encrypt: empty, short, around the block length,
\* ending like padding
CryptoDatas ==
    {<<>>, <<0>>, <<1>>, <<72, 105>>, <<2, 2>>, <<255, 254, 16>>}
    \cup {SeqOf([i \in 1..n |-> (41 * i + n) % 256]) : n \in {15, 16, 17, 32}}

Algorithms == {"AES-256-GCM", "AES-256-CBC"}

\* get_random_bytes(16)
CbcIvs == {SeqOf([i \in 1..BlockLen |-> (23 * i + 5) % 256]),
           SeqOf([i \in 1..BlockLen |-> IF i % 2 = 0 THEN 255 ELSE 0])}

CryptoInputs ==
    [kind : {"crypto"}, data : CryptoDatas, password : Passwords, algorithm : Algorithms]

\* the engine idle, and the arguments of one call drawn from inputs
InitPure(inputs) ==
    /\ InitEngine({<<SmallRows, Cols, Channels>>})
    /\ fields = NoHeader
    /\ raw = <<>>
    /\ parsed = NoHeader
    /\ input \in inputs
    /\ result = NoResult

\* CryptoManager.encrypt(data, password, algorithm)
EncryptCall ==
    /\ pc = "idle"
    /\ input.kind = "crypto"
    /\ \E iv \in IF input.algorithm = "AES-256-GCM" THEN Nonces ELSE CbcIvs :
          result' = [kind |-> "crypto", iv |-> iv,
                     encrypted |-> SeqOf(encrypt_algorithm(input.data, input.password,
                                                           input.algorithm, iv)),
                     decrypted |-> [exc |-> "none", val |-> <<>>]]
    /\ pc' = "encrypted"
    /\ UNCHANGED <<img, shape, req, draw, stego, exc, visited, meta, prev, flip, out,
                   fields, raw, parsed, input>>

\* CryptoManager.decrypt(encrypted, password, algorithm) on what encrypt
\* returned
DecryptCall ==
    /\ pc = "encrypted"
    /\ \E x \in {decrypt_algorithm(result.encrypted, input.password, input.algorithm)} :
          result' = [result EXCEPT !.decrypted = [exc |-> x.exc, val |-> SeqOf(x.val)]]
    /\ pc' = "decrypted"
    /\ UNCHANGED <<img, shape, req, draw, stego, exc, visited, meta, prev, flip, out,
                   fields, raw, parsed, input>>

NextCrypto == EncryptCall \/ DecryptCall

SpecCrypto == InitPure(CryptoInputs) /\ [][NextCrypto]_vars

\* images handed to the analyzer: every small RGB and RGBA shape, shapes
\* around 256 samples, the carriers and the test image
AnalyzeShapes ==
    {<<r, c, ch>> : r \in 1..MaxSide, c \in 1..MaxSide, ch \in {Channels, Channels + 1}}
    \cup {<<8, 8, 4>>, <<8, 11, 3>>, <<ScenarioRows, ScenarioCols, Channels>>}
    \cup Shapes

\* analyze_capacity on the image
AnalyzeCall ==
    /\ pc = "idle"
    /\ result' = [kind |-> "analysis", analysis |-> analyze_capacity(img, shape)]
    /\ pc' = "analyzed"
    /\ UNCHANGED <<img, shape, req, draw, stego, exc, visited, meta, prev, flip, out,
                   fields, raw, parsed, input>>

NextAnalyze == AnalyzeCall

SpecAnalyze == InitWith(AnalyzeShapes) /\ [][NextAnalyze]_vars

\* heights and widths of the images whose advisory is asked for: around
\* 1,000,000 pixels and around 1,000,000 samples
AdvisoryHeights == {1, 2, 500, 999, 1000, 1001}
AdvisoryWidths == {1, 334, 500, 667, 1000, 1001, 250000, 250001, 333333, 333334,
                   500000, 500001}

AdvisoryShapes ==
    {<<h, w, ch>> : h \in AdvisoryHeights, w \in AdvisoryWidths,
                    ch \in {Channels, Channels + 1}}

AdvisoryInputs == [kind : {"shape"}, shape : AdvisoryShapes]

\* lines 133-141 of analyze_capacity on an image of the given shape
AdvisoryCall ==
    /\ pc = "idle"
    /\ input.kind = "shape"
    /\ result' = [kind |-> "advisory",
                  recommendations |-> security_recommendations(input.shape)]
    /\ pc' = "advised"
    /\ UNCHANGED <<img, shape, req, draw, stego, exc, visited, meta, prev, flip, out,
                   fields, raw, parsed, input>>

NextAdvisory == AdvisoryCall

SpecAdvisory == InitPure(AdvisoryInputs) /\ [][NextAdvisory]_vars

\* buffers handed to the bit embedder and the bit extractor: the carrier,
\* all samples 255, all samples 0, and 254 / 255 alternating
BitsCarriers(sh) ==
    LET n == sh[1] * sh[2] * sh[3]
    IN  {Carrier(sh), SeqOf([i \in 1..n |-> 255]), SeqOf([i \in 1..n |-> 0]),
         SeqOf([i \in 1..n |-> 254 + (i % 2)])}

BitsShapes == {<<2, MaxSide, Channels>>, <<SmallRows, Cols, Channels>>}

\* framed byte strings handed to the bit embedder: without the marker
\* pattern (empty, ordinary, ending in one-bits, all zero), and with the
\* pattern at a byte boundary, inside bytes, at the start and in the middle
FrameStrings ==
    {<<>>, <<72>>, <<72, 105>>, <<72, 255>>, <<1, 255, 255, 255>>,
     <<0, 0, 0, 0, 0, 0>>,
     <<255, 255, 255>>, <<83, 84, 69, 71, 65>>,
     <<255, 254>>, <<255, 255, 0>>, <<127, 255, 128>>, <<3, 255, 248, 7>>,
     <<83, 84, 255, 254, 9>>, <<83, 1, 255, 252, 65, 78>>}

FrameInputs == [kind : {"frame"}, data : FrameStrings, bits : 1..4]

\* a buffer and the arguments of one _lsb_embed_secure call
InitBits ==
    /\ shape \in BitsShapes
    /\ img \in BitsCarriers(shape)
    /\ input \in FrameInputs
    /\ pc = "idle"
    /\ req = NoReq
    /\ draw = NoDraw
    /\ stego = <<>>
    /\ exc = "none"
    /\ visited = <<>>
    /\ meta = NoMetadata
    /\ prev = NoRun
    /\ flip = -1
    /\ out = NoOut
    /\ fields = NoHeader
    /\ raw = <<>>
    /\ parsed = NoHeader
    /\ result = NoResult

\* _lsb_embed_secure(img, data, bits) on the framed bytes
EmbedBitsCall ==
    /\ pc = "idle"
    /\ \E e \in {lsb_embed_secure(img, input.data, input.bits)} :
          /\ img' = e.arg
          /\ stego' = e.ret
          /\ exc' = e.exc
          /\ visited' = e.visited
          /\ pc' = IF e.exc = "none" THEN "bits_embedded" ELSE "bits_refused"
    /\ UNCHANGED <<shape, req, draw, meta, prev, flip, out, fields, raw, parsed, input,
                   result>>

\* what _lsb_extract_secure returns on a buffer, and the samples it read
ExtractBits(buffer) ==
    [kind |-> "extract", extracted_bytes |-> lsb_extract_secure(buffer, input.bits),
     samples_read |-> samples_read(buffer, input.bits, "LSB")]

\* _lsb_extract_secure on the buffer the embedder returned
ExtractBitsCall ==
    /\ pc = "bits_embedded"
    /\ result' = ExtractBits(stego)
    /\ pc' = "bits_extracted"
    /\ UNCHANGED <<img, shape, req, draw, stego, exc, visited, meta, prev, flip, out,
                   fields, raw, parsed, input>>

\* _lsb_extract_secure on a buffer nothing was embedded in
ExtractPlainCall ==
    /\ pc = "idle"
    /\ result' = ExtractBits(img)
    /\ pc' = "plain_extracted"
    /\ UNCHANGED <<img, shape, req, draw, stego, exc, visited, meta, prev, flip, out,
                   fields, raw, parsed, input>>

NextBits == EmbedBitsCall \/ ExtractBitsCall \/ ExtractPlainCall

SpecBits == InitBits /\ [][NextBits]_vars

\* a string of n lower-case letters starting at letter k
Letters(n, k) == SeqOf([i \in 1..n |-> 97 + ((i + k) % 26)])

\* passwords handed to validate_password: empty, around the shortest and
\* around the longest accepted length
TriedPasswords ==
    {Letters(n, 0) : n \in {0, 1, MinPasswordLen - 1, MinPasswordLen, MinPasswordLen + 1,
                            MaxPasswordLen - 1, MaxPasswordLen, MaxPasswordLen + 1}}
    \cup {Letters(MinPasswordLen, 1), Letters(MaxPasswordLen, 1)}

PasswordInputs ==
    [kind : {"password"}, password : TriedPasswords,
     confirm_password : {None} \cup {Some(c) : c \in TriedPasswords}]

\* values handed to validate_lsb_bits: integers, whole floats, booleans, a
\* string and None
TriedBits ==
    {PyValue("int", v) : v \in (0 - MaxBitsTried)..MaxBitsTried}
    \cup {PyValue("float", v) : v \in 0..5}
    \cup {PyValue("bool", v) : v \in {0, 1}}
    \cup {PyValue("str", 0), PyValue("NoneType", 0)}

BitsInputs == [kind : {"bits"}, bits : TriedBits]

\* Validators.validate_password(password, confirm_password)
ValidatePasswordCall ==
    /\ pc = "idle"
    /\ input.kind = "password"
    /\ \E x \in {validate_password(input.password, input.confirm_password)} :
          result' = [kind |-> "password", valid |-> x.valid, message |-> x.message]
    /\ pc' = "validated"
    /\ UNCHANGED <<img, shape, req, draw, stego, exc, visited, meta, prev, flip, out,
                   fields, raw, parsed, input>>

\* Validators.validate_lsb_bits(bits)
ValidateBitsCall ==
    /\ pc = "idle"
    /\ input.kind = "bits"
    /\ \E x \in {validate_lsb_bits(input.bits)} :
          result' = [kind |-> "bits", valid |-> x.valid, message |-> x.message]
    /\ pc' = "validated"
    /\ UNCHANGED <<img, shape, req, draw, stego, exc, visited, meta, prev, flip, out,
                   fields, raw, parsed, input>>

NextValidators == ValidatePasswordCall \/ ValidateBitsCall

SpecValidators == InitPure(PasswordInputs \cup BitsInputs) /\ [][NextValidators]_vars

----------------------------------------------------------------------------
(* Claims                                                                  *)

\* the last embed returned and the extract that followed used its password
SameKeyExtract == pc = "extracted" /\ out.password = req.password

\* C1: round trip.  For every non-empty payload, password, bit depth 1..4
\* and technique, on a carrier the embed accepted, extracting with the same
\* password, bit depth and technique returns exactly the payload.
C1_RoundTrip == SameKeyExtract => out.data = req.data

\* an embed call whose arguments passed validation has ended
EmbedEnded ==
    /\ pc \in {"embedded", "embed_failed"}
    /\ validate_inputs(req.path_exists, req.data, req.bits) = "none"

\* len(binary_data) of the last embed: the framed bits and the marker
RequiredBits ==
    8 * Len(prepare_data_with_security(req.data, req.password, draw.now, draw.iv))
    + MarkerLen

\* the carrier holds what it held before the call
CarrierUntouched == img = Carrier(shape)

\* C2 as stated: an embed whose required bits exceed
\* analyze_capacity(buffer)[b].bytes * 8 raises a capacity error and leaves
\* the buffer as it was.
C2_CapacityGuard ==
    (EmbedEnded
     /\ RequiredBits > analyze_capacity(img, shape).capacity_analysis[req.bits].bytes * 8)
    => (exc = "ValueError:capacity" /\ CarrierUntouched)

\* C2 amended: with the sequential technique an embed raises a capacity
\* error exactly when its required bits exceed sampleCount * b (the analyzer's
\* figure, 256 bits lower, is not the threshold); when it raises, nothing is
\* returned and the buffer is as it was.
C2_SequentialCapacityGuard ==
    (EmbedEnded /\ req.technique # "LSB_RANDOM")
    => /\ (exc = "ValueError:capacity") <=> (RequiredBits > Len(img) * req.bits)
       /\ exc = "ValueError:capacity" => (stego = <<>> /\ CarrierUntouched)

\* C2 witness: a sequential embed that asked for more bits than the carrier
\* has and was refused
C2_Witness ==
    /\ pc = "embed_failed"
    /\ req.technique = "LSB"
    /\ exc = "ValueError:capacity"
    /\ RequiredBits > Len(img) * req.bits

\* an extract, with the embed's password, of a stego image one embedded bit
\* of which was flipped
TamperedExtract == SameKeyExtract /\ flip >= 0

\* the extract reported a successful, verified result
VerifiedSuccess == out.info.success /\ out.info.integrity_verified

\* the flipped bit lies in the header's checksum field (bytes 27..42)
FlipInChecksum == flip \in (8 * 27)..(8 * HeaderLen - 1)

\* C3 as stated: after a flip of any embedded bit (header, payload or
\* marker) extraction never reports a verified, successful result.
C3_TamperDetected == TamperedExtract => ~VerifiedSuccess

\* C3 amended: after a flip of one embedded bit, a verified successful
\* result carries the original payload, and a flip inside the checksum field
\* is never reported as verified.  (Flips the checksum does not cover, such
\* as the timestamp, original_size, marker and padding bits, are not
\* detected.)
C3_VerifiedMeansIntact ==
    TamperedExtract =>
        /\ VerifiedSuccess => out.data = req.data
        /\ FlipInChecksum => ~VerifiedSuccess

\* C3 witness: a flipped checksum bit, found by the extract: the payload is
\* returned with integrity_verified = false
C3_Witness ==
    /\ TamperedExtract
    /\ FlipInChecksum
    /\ out.info.success
    /\ ~out.info.integrity_verified
    /\ out.data = req.data

\* two embeds of the same payload into the same image have returned
TwoRuns == pc = "embedded" /\ prev # NoRun /\ req.technique = "LSB_RANDOM"

Range(q) == {q[k] : k \in 1..Len(q)}

\* C4 as stated: two permuted embeds with the same non-empty password,
\* payload, bit depth and input buffer return byte-identical buffers.
C4_ByteIdentical ==
    (TwoRuns /\ req.password # <<>> /\ req.password = prev.req.password)
    => stego = prev.stego

\* C4 amended: two such embeds write the same sample indices in the same
\* order, leave every other sample and the high 8 - b bits of every sample
\* equal, and return byte-identical buffers when they drew the same timestamp
\* and nonce (the header stamps the clock and AES-GCM draws a fresh nonce,
\* so in general the written low bits differ).
C4_SameIndices ==
    (TwoRuns /\ req.password # <<>> /\ req.password = prev.req.password)
    => /\ visited = prev.visited
       /\ \A i \in 1..Len(stego) :
             /\ stego[i] \div 2 ^ req.bits = prev.stego[i] \div 2 ^ req.bits
             /\ (i - 1) \notin Range(visited) => stego[i] = prev.stego[i]
       /\ draw = prev.draw => stego = prev.stego

\* C4 witness: two permuted embeds with the same password that drew
\* different nonces and returned different buffers
C4_Witness ==
    /\ TwoRuns
    /\ req.password = PW_A
    /\ prev.req.password = PW_A
    /\ draw.iv # prev.draw.iv
    /\ stego # prev.stego

VisitCount == ChunkCount(RequiredBits, req.bits, Len(img))

C6_HeaderRoundTrip ==
    /\ pc \in {"packed", "parsed"} => Len(raw) = HeaderLen
    /\ pc = "parsed" => parsed = fields

\* C6 witness: a header whose numbers fill several bytes and whose flags are
\* both set was packed and parsed
C6_Witness ==
    /\ pc = "parsed"
    /\ fields.timestamp = 1795161600
    /\ fields.original_size = 65534
    /\ fields.processed_size = 2147483647
    /\ fields.encrypted = 1
    /\ fields.compressed = 1
    /\ parsed.processed_size = 2147483647
    /\ parsed.checksum = fields.checksum

\* C7: unpack never raises.  For every extracted byte string and every
\* password, _process_extracted_data returns a (data, info) pair.
C7_UnpackReturns ==
    pc = "unpacked" => (out.exc = "none" /\ out.info.keys # {})

\* C7 witness: a framed stream with a corrupt payload, for which the
\* structured decoding and the legacy decompression both failed, came back
\* as a typed failure
C7_Witness ==
    /\ pc = "unpacked"
    /\ Len(raw) >= MinHeaderLen
    /\ SubSeq(raw, 1, 9) = MAGIC
    /\ out.exc = "none"
    /\ out.info.keys = {"success", "error"}
    /\ ~out.info.success
    /\ out.info.error # ""
    /\ out.data = raw

ScenarioA ==
    /\ req.technique = "LSB"
    /\ Len(req.data) = 38
    /\ req.bits = 2
    /\ req.password = <<>>

\* C9: scenario A.  On the 30,000-sample buffer with a 38-byte payload, bit
\* depth 2 and no password, 60,000 bits are available, 38 * 8 + 16 = 320
\* bits are required, the embed succeeds and the extract returns the 38 bytes.
C9_ScenarioA ==
    /\ (EmbedEnded /\ ScenarioA)
           => /\ Len(img) * req.bits = 60000
              /\ RequiredBits = 38 * 8 + 16
              /\ exc = "none"
    /\ (SameKeyExtract /\ ScenarioA) => out.data = req.data

\* the last request is scenario B: a 5,000-byte payload, bit depth 1, no
\* password, sequential technique, on the same image
ScenarioB ==
    /\ req.technique = "LSB"
    /\ Len(req.data) = 5000
    /\ req.bits = 1
    /\ req.password = <<>>

\* C10 as stated: scenario B.  Embedding any 5,000-byte payload at bit depth
\* 1 into the 30,000-sample buffer ends in a capacity error, whatever the
\* payload holds.
C10_AnyPayloadRefused ==
    (EmbedEnded /\ ScenarioB) => exc = "ValueError:capacity"

\* C10 amended: in scenario B the embed ends in a capacity error exactly when
\* the header and the compressed payload, (43 + compressed size) * 8 + 16
\* bits, exceed the 30,000 available bits; a payload that does not compress
\* needs 40,448 bits and is refused, one that compresses well is embedded.
C10_RefusedByFramedSize ==
    (EmbedEnded /\ ScenarioB)
    => /\ (exc = "ValueError:capacity")
              <=> (8 * (HeaderLen + Len(ZlibCompress(req.data))) + MarkerLen > Len(img))
       /\ ~IsRun(req.data) => (RequiredBits = 40448 /\ exc = "ValueError:capacity")
       /\ exc = "ValueError:capacity" => stego = <<>>

\* C10 witness: a 5,000-byte payload that does not compress was refused
C10_Witness ==
    /\ pc = "embed_failed"
    /\ ScenarioB
    /\ ~IsRun(req.data)
    /\ exc = "ValueError:capacity"
    /\ RequiredBits > Len(img)

\* C11: crypto round trip.  For every byte string and password, decrypt of
\* encrypt with the same password gives the byte string back, in AES-256-GCM
\* and in AES-256-CBC, and what encrypt returns differs from the byte string.
C11_CryptoRoundTrip ==
    /\ pc \in {"encrypted", "decrypted"} => result.encrypted # input.data
    /\ pc = "decrypted"
           => (result.decrypted.exc = "none" /\ result.decrypted.val = input.data)

\* C11 witness: a CBC round trip of a whole block under a password
C11_Witness ==
    /\ pc = "decrypted"
    /\ input.algorithm = "AES-256-CBC"
    /\ input.password = PW_A
    /\ Len(input.data) = BlockLen
    /\ Len(result.encrypted) = 3 * BlockLen
    /\ result.decrypted.val = input.data

\* the analyzer returned, the image is as it was and every bit depth reports
\* floor((sampleCount * d - 256) / 8) bytes
AnalysisByFormula ==
    /\ img = Carrier(shape)
    /\ \A d \in 1..4 :
          /\ result.analysis.capacity_analysis[d].bytes = (Len(img) * d - 256) \div 8
          /\ result.analysis.capacity_analysis[d].bits_used = d

\* C12 as stated: analyze_capacity is read-only, reports
\* floor((sampleCount * d - 256) / 8) bytes for d in 1..4, and the 1-bit
\* capacity it reports is greater than 0.
C12_CapacityPositive ==
    pc = "analyzed"
    => (AnalysisByFormula /\ result.analysis.capacity_analysis[1].bytes > 0)

\* C12 amended: analyze_capacity is read-only and reports
\* floor((sampleCount * d - 256) / 8) bytes; the 1-bit capacity is greater
\* than 0 exactly when the buffer has at least 264 samples, and is zero or
\* negative for smaller buffers.
C12_CapacityFormula ==
    pc = "analyzed"
    => /\ AnalysisByFormula
       /\ (result.analysis.capacity_analysis[1].bytes > 0) <=> (Len(img) >= 264)

\* C12 witness: the analysis of the 100 x 100 RGB test image, 3718 bytes at
\* one bit
C12_Witness ==
    /\ pc = "analyzed"
    /\ Len(img) = 30000
    /\ result.analysis.capacity_analysis[1].bytes = 3718
    /\ result.analysis.capacity_analysis[4].bytes = 14968

\* validate_password has returned
PasswordValidated == pc = "validated" /\ input.kind = "password"

\* C13: validate_password accepts the empty password; rejects a non-empty
\* password of fewer than 4 characters with a message that holds 'at least 4
\* characters'; rejects a password of more than 100 characters; rejects a
\* password that differs from a supplied confirmation; accepts every other
\* password.  The tests apply in this order.
C13_PasswordValidation ==
    PasswordValidated =>
        LET n == Len(input.password)
            mismatch == /\ input.confirm_password # None
                        /\ input.confirm_password[1] # input.password
        IN  /\ n = 0 => result.valid
            /\ (0 < n /\ n < 4)
                   => (~result.valid
                       /\ result.message = "Password must be at least 4 characters")
            /\ n > 100 => ~result.valid
            /\ (4 <= n /\ n <= 100 /\ mismatch) => ~result.valid
            /\ (4 <= n /\ n <= 100 /\ ~mismatch) => result.valid

\* C13 witness: a password of exactly 4 characters with a matching
\* confirmation was accepted
C13_Witness ==
    /\ PasswordValidated
    /\ Len(input.password) = 4
    /\ input.confirm_password = Some(input.password)
    /\ result.valid
    /\ result.message = "Password is valid"

\* validate_lsb_bits has returned
BitsValidated == pc = "validated" /\ input.kind = "bits"

\* C14: validate_lsb_bits returns valid exactly for the integers 1, 2, 3 and
\* 4 (True, which is the integer 1, included) and invalid for every other
\* value; on integers it accepts what embed's own check of bits accepts.
C14_BitsValidation ==
    BitsValidated =>
        /\ result.valid <=> (/\ input.bits.type \in {"int", "bool"}
                             /\ input.bits.value \in {1, 2, 3, 4})
        /\ input.bits.type = "int"
               => (result.valid
                   <=> validate_inputs(TRUE, <<72>>, input.bits.value) # "ValueError:bits")

\* C14 witness: 5 was rejected as out of range
C14_Witness ==
    /\ BitsValidated
    /\ input.bits = PyValue("int", 5)
    /\ ~result.valid
    /\ result.message = "Bits must be between 1 and 4"

\* a permuted embed whose bitstream fit into the image has returned
PermutedEmbedFits ==
    /\ pc = "embedded"
    /\ req.technique = "LSB_RANDOM"
    /\ RequiredBits <= Len(img) * req.bits

\* C15: the permuted extractor mirrors the permuted embedder.  With the same
\* password and bit depth, the k-th group of bits the extractor reads is the
\* low bits of sample perm[k], the sample the embedder wrote its k-th chunk
\* to; hence _lsb_random_extract of what _lsb_random_embed returned gives the
\* framed bytes back.
C15_ExtractorMirrors ==
    PermutedEmbedFits =>
        LET perm == RandomPermutation(PasswordSeed(req.password), Len(stego))
            zeros == SeqOf([i \in 1..Len(stego) |-> 0])
            groups == RandomReadLoop(zeros, stego, perm, req.bits, 1, Len(perm))
        IN  /\ \A k \in 1..Len(visited) :
                  groups[k] = LowBits(stego[perm[k] + 1], req.bits)
            /\ lsb_random_extract(stego, req.bits, req.password)
                   = prepare_data_with_security(req.data, req.password, draw.now, draw.iv)

\* C16: the capacity precondition holds for both techniques.  Whenever the
\* bitstream (framed bits and the 16 marker bits) is longer than
\* sampleCount * bitDepth, embed ends in a capacity error, no sample is
\* changed, and no buffer carrying a truncated bitstream is returned.
C16_CapacityBothTechniques ==
    (EmbedEnded /\ RequiredBits > Len(img) * req.bits)
    => (exc = "ValueError:capacity" /\ stego = <<>> /\ CarrierUntouched)

\* unpack has returned for bytes that start with the magic tag and are at
\* least as long as the minimum header
EnvelopeUnpacked ==
    /\ pc = "unpacked"
    /\ Len(raw) >= MinHeaderLen
    /\ SubSeq(raw, 1, 9) = MAGIC

\* unpack has returned for bytes whose first 9 bytes are not the magic tag
MagicMismatchUnpacked ==
    /\ pc = "unpacked"
    /\ (Len(raw) < 9 \/ SubSeq(raw, 1, 9) # MAGIC)

\* the payload slice of raw after the decrypt step (when decrypt is true)
\* and the decompress step (when the compressed flag is set)
Recovered(password, decrypts) ==
    LET h == ParseHeader(raw)
        data_part == Slice(raw, HeaderLen, HeaderLen + h.processed_size)
        dec == IF decrypts THEN decrypt(data_part, password)
               ELSE [exc |-> "none", val |-> data_part]
    IN  IF dec.exc # "none" THEN dec
        ELSE IF h.compressed # 0 THEN ZlibDecompress(dec.val)
        ELSE dec

\* C17: a magic mismatch leads to the legacy path.  When the first 9 bytes
\* of the extracted bytes are not the magic tag, unpack reports legacy mode
\* and, when the whole input decompresses, returns the decompressed bytes.
C17_LegacyDecompresses ==
    MagicMismatchUnpacked =>
        /\ out.info.legacy_mode
        /\ ZlibDecompress(raw).exc = "none" => out.data = ZlibDecompress(raw).val

\* C18: the fallback chain is ordered.  The result of the structured decode
\* is returned whenever it raises nothing; the legacy decompression of the
\* untouched bytes is returned only when the structured decode raised; the
\* raw bytes come back with success = false and the structured decode's
\* error only when the legacy decompression failed as well; and no other
\* result carries success = false.
C18_OrderedFallback ==
    pc = "unpacked" =>
        LET s == StructuredDecode(raw, out.password)
            z == ZlibDecompress(raw)
            failed == "success" \in out.info.keys /\ ~out.info.success
        IN  /\ s.exc = "none" => (out.data = s.data /\ out.info = s.info)
            /\ (s.exc # "none" /\ z.exc = "none")
                   => (out.data = z.val /\ out.info.legacy_mode /\ out.info.success)
            /\ (s.exc # "none" /\ z.exc # "none")
                   => (failed /\ out.data = raw /\ out.info.error = s.exc)
            /\ failed => (s.exc \in {"ValueError", "zlib.error"} /\ z.exc # "none")

\* C18 witness: the envelope's payload was encrypted under another password;
\* the decrypt failed first, then the legacy decompression, and the raw
\* bytes came back with the decrypt error
C18_Witness ==
    /\ EnvelopeUnpacked
    /\ out.password # <<>>
    /\ ParseHeader(raw).encrypted = 1
    /\ ZlibDecompress(raw).exc = "zlib.error"
    /\ out.info.keys = {"success", "error"}
    /\ ~out.info.success
    /\ out.info.error = "ValueError"
    /\ out.data = raw

\* C19: a checksum mismatch is reported, not fatal.  When the header parses
\* and the payload decrypts and decompresses, unpack returns the recovered
\* payload with success = true and integrity_verified equal to the
\* comparison of the payload's truncated SHA-256 with the stored checksum.
C19_MismatchReported ==
    EnvelopeUnpacked =>
        LET h == ParseHeader(raw)
            unz == Recovered(out.password, h.encrypted # 0 /\ out.password # <<>>)
        IN  unz.exc = "none" =>
                /\ out.exc = "none"
                /\ out.data = unz.val
                /\ "success" \in out.info.keys /\ out.info.success
                /\ "integrity_verified" \in out.info.keys
                /\ out.info.integrity_verified = (Sha256_16(unz.val) = h.checksum)

\* C19 witness: a stream whose stored checksum was changed gave its payload
\* back with success = true and integrity_verified = false
C19_Witness ==
    /\ EnvelopeUnpacked
    /\ out.info.keys = SecureKeys
    /\ out.info.success
    /\ ~out.info.integrity_verified
    /\ out.data \in Payloads
    /\ Sha256_16(out.data) # ParseHeader(raw).checksum

\* C20: an encrypted envelope and an empty password.  When the encrypted
\* flag is set and the password is empty, unpack raises nothing and returns
\* what the remaining steps make of the payload as stored: the decompressed
\* payload with success = true, or, when decompression fails, the raw bytes
\* with success = false and the decompression error.
C20_EmptyPasswordProceeds ==
    (EnvelopeUnpacked /\ ParseHeader(raw).encrypted # 0 /\ out.password = <<>>) =>
        LET unz == Recovered(<<>>, FALSE)
        IN  /\ out.exc = "none"
            /\ out.info.keys # {}
            /\ unz.exc = "none" => (out.data = unz.val /\ out.info.success)
            /\ (unz.exc # "none" /\ ZlibDecompress(raw).exc # "none")
                   => (out.data = raw /\ ~out.info.success /\ out.info.error = unz.exc)

\* C20 witness: a stream encrypted under a password was unpacked with the
\* empty password; the ciphertext went to decompression, which failed, and
\* the raw bytes were returned
C20_Witness ==
    /\ EnvelopeUnpacked
    /\ raw \in Framed
    /\ ParseHeader(raw).encrypted = 1
    /\ out.password = <<>>
    /\ out.exc = "none"
    /\ out.info.error = "zlib.error"
    /\ out.data = raw

\* len(processed_data) of the last embed: the bytes that follow the header
ProcessedLen ==
    Len(prepare_data_with_security(req.data, req.password, draw.now, draw.iv)) - HeaderLen

\* C21: the 256 reserved bits cover the header and the marker.  For every
\* buffer and bit depth, an embed whose processed payload is no longer than
\* the bytes analyze_capacity reports for that bit depth ends without a
\* capacity error.
C21_ReserveCoversOverhead ==
    (EmbedEnded
     /\ ProcessedLen <= analyze_capacity(Carrier(shape), shape).capacity_analysis[req.bits].bytes)
    => exc # "ValueError:capacity"

\* the advisory for an image of the drawn shape has been computed
Advised == pc = "advised" /\ result.kind = "advisory"

\* the advisory is the single 1-2 bit line when large, the single 2-4 bit
\* line otherwise
AdvisoryIs(large) ==
    result.recommendations =
        IF large THEN <<"Use 1-2 bit LSB for better stealth in large images">>
        ELSE <<"Use 2-4 bit LSB for optimal capacity in small images">>

\* C22 as stated: the advisory is chosen by sample count, 1-2 bits exactly
\* when height * width * channels exceeds 1,000,000.
C22_AdvisoryBySamples ==
    Advised =>
        AdvisoryIs(input.shape[1] * input.shape[2] * input.shape[3] > 1000000)

\* C22 amended: the advisory is chosen by pixel count.  Exactly one
\* recommendation is emitted: 1-2 bits exactly when height * width exceeds
\* 1,000,000 (the channels are not counted), 2-4 bits otherwise.
C22_AdvisoryByPixels ==
    Advised =>
        /\ Len(result.recommendations) = 1
        /\ AdvisoryIs(input.shape[1] * input.shape[2] > 1000000)

\* C22 witness: an image of more than 1,000,000 samples and no more than
\* 1,000,000 pixels was advised 2-4 bits
C22_Witness ==
    /\ Advised
    /\ input.shape[1] * input.shape[2] * input.shape[3] > 1000000
    /\ input.shape[1] * input.shape[2] <= 1000000
    /\ AdvisoryIs(FALSE)

\* the framed bytes of the last embed
FramedBytes == prepare_data_with_security(req.data, req.password, draw.now, draw.iv)

\* bit k (0-based) of the bitstream B of the framed bytes F: the bits of F,
\* most significant first in each byte, then the 16 marker bits; 0 past the
\* end (the zero padding of the last chunk)
StreamBit(F, k) ==
    IF k < 8 * Len(F) THEN (F[(k \div 8) + 1] \div 2 ^ (7 - (k % 8))) % 2
    ELSE IF k < 8 * Len(F) + 16 THEN (IF k = 8 * Len(F) + 15 THEN 0 ELSE 1)
    ELSE 0

\* a sequential embed has returned a buffer
SequentialEmbedded == pc = "embedded" /\ req.technique # "LSB_RANDOM"

\* C23: write rule and frame of the sequential embed.  With B the framed
\* bits followed by the marker and n = ceil(len(B) / bitDepth): for i < n,
\* output sample i keeps the high 8 - bitDepth bits of input sample i and its
\* low bits are B[i * bitDepth .. i * bitDepth + bitDepth), zero-padded; every
\* sample from n on is unmodified; every output sample is in 0..255.
C23_WriteRuleAndFrame ==
    SequentialEmbedded =>
        LET F == FramedBytes
            b == req.bits
            n == (8 * Len(F) + 16 + b - 1) \div b
        IN  /\ Len(stego) = Len(img)
            /\ \A i \in 0..(Len(img) - 1) :
                  /\ stego[i + 1] \in 0..255
                  /\ i >= n => stego[i + 1] = img[i + 1]
                  /\ i < n =>
                        /\ stego[i + 1] \div 2 ^ b = img[i + 1] \div 2 ^ b
                        /\ \A j \in 0..(b - 1) :
                              (stego[i + 1] \div 2 ^ (b - 1 - j)) % 2
                                  = StreamBit(F, i * b + j)

\* C23 witness: a sequential embed at bit depth 3 whose bitstream is not a
\* multiple of 3 bits (its last chunk was padded) changed samples and left
\* samples after the bitstream as they were
C23_Witness ==
    /\ SequentialEmbedded
    /\ req.bits = 3
    /\ RequiredBits % 3 # 0
    /\ Len(visited) < Len(img)
    /\ stego # img
    /\ stego[Len(visited)] % 2 = 0
    /\ stego[Len(stego)] = img[Len(img)]

\* an extract has returned
Extracted == pc = "extracted" /\ result.kind = "extract"

\* the groups of low bits of every sample of the stego image
AllGroups == SeqOf([i \in 1..Len(stego) |-> LowBits(stego[i], req.bits)])

\* C24 as stated: the extractor stops at the marker.  No sample after the
\* one whose bits complete the first occurrence of the marker is read, so
\* the samples read are at most those that hold the embedded bitstream.
C24_StopsAtMarker ==
    (Extracted /\ req.technique # "LSB_RANDOM")
    => result.samples_read <= (RequiredBits + req.bits - 1) \div req.bits

\* C24 amended: the extractor reads every sample of the buffer before it
\* looks for the marker, so the number of samples read is the sample count
\* of the image whatever the payload size; the bitstream is then truncated
\* at the start of the first occurrence of the marker.
C24_ReadsWholeImage ==
    Extracted =>
        /\ result.samples_read = Len(stego)
        /\ LET at == MarkerIndex(AllGroups, req.bits)
           IN  at >= 0 => Len(result.extracted_bytes) = at \div 8

\* C24 witness: the bitstream took less than the image, the extractor read
\* all the samples and cut the bytes at the marker
C24_Witness ==
    /\ Extracted
    /\ req.technique = "LSB"
    /\ Len(visited) < Len(stego)
    /\ result.samples_read = Len(stego)
    /\ result.samples_read > Len(visited)
    /\ 8 * Len(result.extracted_bytes) + MarkerLen <= Len(visited) * req.bits

\* the buffer the bit extractor was given
ScannedBuffer == IF pc = "plain_extracted" THEN img ELSE stego

\* the bit extractor has returned
BitsExtracted == pc \in {"bits_extracted", "plain_extracted"} /\ result.kind = "extract"

\* bit k (0-based) of the bitstream read from the buffer: the low bits of
\* the samples in index order, most significant first within a sample
ReadBit(buffer, b, k) == ((buffer[(k \div b) + 1] % 2 ^ b) \div 2 ^ (b - 1 - (k % b))) % 2

\* the marker pattern, 15 one-bits and a zero-bit, starts at bit k of the
\* bitstream read from the buffer
MarkerReadAt(buffer, b, k) ==
    /\ \A j \in 0..14 : ReadBit(buffer, b, k + j) = 1
    /\ ReadBit(buffer, b, k + 15) = 0

MarkerNowhere(buffer, b) ==
    \A k \in 0..(Len(buffer) * b - 16) : ~MarkerReadAt(buffer, b, k)

\* C25: without a marker the whole buffer is converted.  When the marker
\* pattern occurs nowhere in the bitstream read from the buffer, the
\* extractor returns floor(sampleCount * bitDepth / 8) bytes, byte m made of
\* bits 8m .. 8m + 7 of the bitstream, most significant first; a trailing
\* group of fewer than 8 bits is dropped.
C25_NoMarkerWholeBuffer ==
    (BitsExtracted /\ MarkerNowhere(ScannedBuffer, input.bits)) =>
        LET buffer == ScannedBuffer
            b == input.bits
            bytes == result.extracted_bytes
        IN  /\ Len(bytes) = (Len(buffer) * b) \div 8
            /\ \A m \in 0..(Len(bytes) - 1) : \A j \in 0..7 :
                  (bytes[m + 1] \div 2 ^ (7 - j)) % 2 = ReadBit(buffer, b, 8 * m + j)

\* C25 witness: a buffer without the marker whose bit count is not a
\* multiple of 8 was converted whole, the last bits dropped
C25_Witness ==
    /\ BitsExtracted
    /\ pc = "plain_extracted"
    /\ MarkerNowhere(img, input.bits)
    /\ (Len(img) * input.bits) % 8 # 0
    /\ 8 * Len(result.extracted_bytes) < Len(img) * input.bits
    /\ 8 * Len(result.extracted_bytes) + 8 > Len(img) * input.bits

\* the marker pattern occurs inside the bits of the byte string F, at any
\* bit offset
MarkerInFrame(F) ==
    \E k \in 0..(8 * Len(F) - 16) :
        /\ \A j \in 0..14 : StreamBit(F, k + j) = 1
        /\ StreamBit(F, k + 15) = 0

\* the bit extractor has returned for a buffer the bit embedder accepted
\* the framed bytes and the bit depth for
BitsRoundTrip ==
    /\ pc = "bits_extracted"
    /\ result.kind = "extract"
    /\ 8 * Len(input.data) + 16 <= Len(img) * input.bits

\* s is a prefix of t
IsPrefix(s, t) == Len(s) <= Len(t) /\ s = SubSeq(t, 1, Len(s))

\* C28: conditional round trip of the bit layer.  For framed bytes F and a
\* buffer with len(F) * 8 + 16 <= sampleCount * bitDepth, when the marker
\* pattern occurs nowhere in the bits of F, _lsb_extract_secure of what
\* _lsb_embed_secure returned is exactly F.
C28_BitRoundTrip ==
    (BitsRoundTrip /\ ~MarkerInFrame(input.data)) => result.extracted_bytes = input.data

\* C28 witness: framed bytes that end in one-bits, embedded at bit depth 3
\* with a padded last chunk in a buffer whose other samples are all 255,
\* came back whole
C28_Witness ==
    /\ BitsRoundTrip
    /\ input.bits = 3
    /\ (8 * Len(input.data) + 16) % 3 = 2
    /\ input.data # <<>>
    /\ input.data[Len(input.data)] = 255
    /\ img[Len(img)] = 255
    /\ ~MarkerInFrame(input.data)
    /\ result.extracted_bytes = input.data

\* C29: prefix invariant of the bit layer.  For framed bytes F that pass
\* the capacity check, the bytes _lsb_extract_secure returns from what
\* _lsb_embed_secure returned are a prefix of F, and a proper prefix exactly
\* when the marker pattern occurs inside the bits of F.
C29_ExtractedIsPrefix ==
    BitsRoundTrip =>
        /\ IsPrefix(result.extracted_bytes, input.data)
        /\ (Len(result.extracted_bytes) < Len(input.data)) <=> MarkerInFrame(input.data)

\* C29 witness: framed bytes with the marker pattern in their third and
\* fourth byte came back as their first two bytes
C29_Witness ==
    /\ BitsRoundTrip
    /\ MarkerInFrame(input.data)
    /\ Len(input.data) = 5
    /\ result.extracted_bytes = SubSeq(input.data, 1, 2)

\* the big-endian number in bytes lo .. hi - 1 (0-based) of F
FieldValue(F, lo, hi) ==
    LET w == hi - lo
        t == [k \in 1..8 |-> IF k <= w THEN F[lo + k] * 256 ^ (w - k) ELSE 0]
    IN  t[1] + t[2] + t[3] + t[4] + t[5] + t[6] + t[7] + t[8]

\* C26: the envelope pack produces.  It is a header of 43 bytes followed by
\* the payload: magic is the constant tag, original_size is len(data),
\* processed_size is the number of bytes after the header, encrypted is 1
\* exactly when the password is non-empty, compressed is 1, and checksum is
\* the first 16 bytes of the digest of the plaintext data.
C26_EnvelopeFields ==
    EmbedEnded =>
        LET F == FramedBytes
        IN  /\ Len(F) >= 43
            /\ SubSeq(F, 1, 9) = <<83, 84, 69, 71, 65, 78, 79, 48, 49>>
            /\ \A k \in 10..13 : F[k] = 0
            /\ FieldValue(F, 13, 17) = draw.now
            /\ FieldValue(F, 17, 21) = Len(req.data)
            /\ FieldValue(F, 21, 25) = Len(F) - 43
            /\ F[26] = (IF req.password # <<>> THEN 1 ELSE 0)
            /\ F[27] = 1
            /\ SubSeq(F, 28, 43) = Sha256_16(req.data)
            /\ pc = "embedded" => meta.processed_size = Len(F)

\* C26 witness: an embed with a password framed a two-byte payload; the
\* payload after the header is the encrypted stream, longer than the data
C26_Witness ==
    /\ pc = "embedded"
    /\ req.password # <<>>
    /\ Len(req.data) = 2
    /\ FramedBytes[26] = 1
    /\ FieldValue(FramedBytes, 21, 25) = meta.processed_size - 43
    /\ FieldValue(FramedBytes, 21, 25) > NonceLen + TagLen
    /\ Sha256_16(req.data) # Sha256_16(SubSeq(FramedBytes, 44, Len(FramedBytes)))

\* an embed call has ended and nothing was called since, or only extract
EmbedCalled == pc \in {"embedded", "embed_failed", "extracted"}

\* nothing was prepared and no sample was written or returned
NothingWritten == visited = <<>> /\ stego = <<>> /\ CarrierUntouched

\* C27: validation and capacity errors precede mutation.  An embed with a
\* missing source, a bit depth outside 1..4 or an empty payload raises
\* before the payload is prepared (no clock or nonce is drawn) and before any
\* sample is written; an embed whose bitstream exceeds the capacity raises
\* before the first sample is written; samples are written only in calls
\* that passed all of these checks.
C27_ChecksPrecedeWrites ==
    EmbedCalled =>
        LET v == validate_inputs(req.path_exists, req.data, req.bits)
        IN  /\ v # "none" => (exc = v /\ draw = NoDraw /\ NothingWritten)
            /\ (v = "none" /\ RequiredBits > Len(img) * req.bits)
                   => (exc = "ValueError:capacity" /\ NothingWritten)
            /\ visited # <<>> => (v = "none" /\ RequiredBits <= Len(img) * req.bits)

\* unpack has returned for the envelope pack made of payload d under the
\* non-empty password p, and was given another non-empty password
WrongPasswordUnpack(d, p) ==
    /\ pc = "unpacked"
    /\ p # <<>>
    /\ raw \in Framed
    /\ ParseHeader(raw).encrypted = 1
    /\ SubSeq(raw, 28, 43) = Sha256_16(d)
    /\ decrypt(Slice(raw, HeaderLen, Len(raw)), p).exc = "none"
    /\ out.password # <<>>
    /\ out.password # p

\* C30: a wrong password never yields the payload.  Unpacking an encrypted
\* envelope with a non-empty password other than the embedding password
\* never returns the plaintext and never reports success with
\* integrity_verified; the decrypt failure is absorbed, and the result is
\* the raw extracted bytes with success = false.
C30_WrongPasswordFails ==
    \A d \in Payloads, p \in Passwords :
        WrongPasswordUnpack(d, p) =>
            /\ out.exc = "none"
            /\ out.data # d
            /\ ~(out.info.success /\ out.info.integrity_verified)
            /\ out.data = raw
            /\ "success" \in out.info.keys /\ ~out.info.success
            /\ out.info.error = "ValueError"

\* C30 witness: an envelope made under one password was unpacked with the
\* other; the raw bytes came back with success = false
C30_Witness ==
    /\ WrongPasswordUnpack(<<72, 105>>, PW_A)
    /\ out.password = PW_B
    /\ out.data = raw
    /\ ~out.info.success
    /\ out.info.keys = {"success", "error"}

====
